---- MODULE Spec2Model ----
(***************************************************************************)
(* The order book of onymos.py: the global orderBooks registry, addOrder   *)
(* and matchOrder, run by several threads.  Every read and every write of  *)
(* shared memory (a count, a slot, an Order's active flag) is one step of  *)
(* the calling thread, so that the threads interleave as the interpreter   *)
(* lets them.                                                              *)
(***************************************************************************)
EXTENDS Integers, Sequences, FiniteSets, TLC

\* Program constants, scaled down from 1024 so that a full side is reachable.
MAX_TICKERS == 2
MAX_ORDERS_PER_SIDE == 2

\* Bounds of the model.
NumThreads == 2
MaxAdds == 3
MaxMatches == 2
MaxPrice == 2
MaxQuantity == 1

Threads == 1..NumThreads
Prices == 1..MaxPrice
Quantities == 1..MaxQuantity
\* Ticker arguments: every valid id, one below the range and one above it.
TickerArgs == (0 - 1)..MAX_TICKERS
\* order_type arguments: 0 for Buy, 1 for Sell.
OrderTypes == {0, 1}

\* float('inf'): greater than every price.
INF == MaxPrice + 1
\* The empty slot marker; Orders are numbered from 1 in creation order.
None == 0

VARIABLES
    orders,       \* the Order objects created so far (the heap), by identity
    buy_orders,   \* buy_orders[t][k]: the Order in slot k, or None
    sell_orders,  \* sell_orders[t][k]
    buy_count,    \* buy_count[t]
    sell_count,   \* sell_count[t]
    pc,           \* pc[th]: the line thread th is about to run
    loc,          \* loc[th]: the locals of the call thread th is in
    printed,      \* the match lines printed so far, oldest first
    nAdd,         \* addOrder calls started
    nMatch,       \* matchOrder calls started
    snap          \* the shared state at the start of the one call that has
                  \* run alone since it started, if there is such a call

shared == <<orders, buy_orders, sell_orders, buy_count, sell_count>>
vars == <<orders, buy_orders, sell_orders, buy_count, sell_count,
          pc, loc, printed, nAdd, nMatch, snap>>

Books == 0..(MAX_TICKERS - 1)
Slots == 0..(MAX_ORDERS_PER_SIDE - 1)

\* Order.__init__ with quantity and price taken in the wrong order.
OrderSwapped(order_type, ticker, quantity, price) ==
    [active |-> TRUE, order_type |-> order_type, ticker |-> ticker,
     quantity |-> price, price |-> quantity]

\* Order.__init__ creating the Order inactive.
OrderInactive(order_type, ticker, quantity, price) ==
    [active |-> FALSE, order_type |-> order_type, ticker |-> ticker,
     quantity |-> quantity, price |-> price]

\* Order.__init__
Order(order_type, ticker, quantity, price) ==
    [active |-> TRUE, order_type |-> order_type, ticker |-> ticker,
     quantity |-> quantity, price |-> price]

\* OrderBook.__init__: the preallocated slot list of one side.
EmptySide == [k \in Slots |-> None]

\* The range check without its lower bound.
InvalidTickerNoLowerBound(ticker) == ticker >= MAX_TICKERS

\* The range check of addOrder and matchOrder.
InvalidTicker(ticker) == ticker < 0 \/ ticker >= MAX_TICKERS

\* Every ticker served by the first book.
BookIndexFirst(ticker) == 0

\* orderBooks[ticker]: a Python list index, negative ids count from the end.
BookIndex(ticker) == IF ticker < 0 THEN ticker + MAX_TICKERS ELSE ticker

\* The capacity check, off by one.
HasRoomOffByOne(index) == index <= MAX_ORDERS_PER_SIDE

\* The capacity check of lines 44 and 50.
HasRoom(index) == index < MAX_ORDERS_PER_SIDE

\* Line 73 with <= for <: among equal prices the last slot wins.
LowerPriceOrEqual(price, lowest) == price <= lowest

\* Line 73: a strictly lower price replaces the lowest seen so far.
LowerPrice(price, lowest) == price < lowest

\* Line 84 with > for >=: a Buy at the Sell's own price is passed over.
ReachesStrictly(price, lowest) == price > lowest

\* Line 84: the Buy's price reaches the lowest Sell price.
Reaches(price, lowest) == price >= lowest

\* A matchOrder that never looks at the flag.
AlwaysActive(o) == TRUE

\* order.active, as read by matchOrder.
IsActive(o) == orders[o].active

\* The locals of a thread that is in no call.
NoLocals ==
    [op |-> "none", order_type |-> 0, ticker |-> 0, quantity |-> 0, price |-> 0,
     index |-> 0, count |-> 0, n |-> 0, i |-> 0, j |-> 0, order |-> None,
     lowest_sell_price |-> 0, lowest_sell_index |-> 0 - 1, sell_order |-> None,
     result |-> "-", path |-> "-", flipped |-> {}, dead0 |-> {}]

\* The locals of a call that has returned: its value and the path it took.
Returned(l, result, path) ==
    [NoLocals EXCEPT !.op = l.op, !.result = result, !.path = path]

NoSnap == [th |-> 0]
TakeSnap(th) ==
    [th |-> th, orders |-> orders, buy_orders |-> buy_orders,
     sell_orders |-> sell_orders, buy_count |-> buy_count,
     sell_count |-> sell_count, printed |-> printed]
\* A step of th ends the solitude of any other thread's call.
KeepSnap(th) == snap' = IF snap.th = th THEN snap ELSE NoSnap

Init ==
    /\ orders = << >>
    /\ buy_orders = [t \in Books |-> EmptySide]
    /\ sell_orders = [t \in Books |-> EmptySide]
    /\ buy_count = [t \in Books |-> 0]
    /\ sell_count = [t \in Books |-> 0]
    /\ pc = [th \in Threads |-> "idle"]
    /\ loc = [th \in Threads |-> NoLocals]
    /\ printed = << >>
    /\ nAdd = 0
    /\ nMatch = 0
    /\ snap = NoSnap

Goto(th, label, l) ==
    /\ pc' = [pc EXCEPT ![th] = label]
    /\ loc' = [loc EXCEPT ![th] = l]

(***************************************************************************)
(* addOrder                                                                *)
(***************************************************************************)

\* A thread calls addOrder(order_type, ticker, quantity, price).
AddOrderCall(th) ==
    /\ pc[th] = "idle"
    /\ nAdd < MaxAdds
    /\ \E ot \in OrderTypes, t \in TickerArgs, q \in Quantities, p \in Prices :
          Goto(th, "a38", [NoLocals EXCEPT !.op = "addOrder", !.order_type = ot,
                                           !.ticker = t, !.quantity = q, !.price = p])
    /\ nAdd' = nAdd + 1
    /\ snap' = TakeSnap(th)
    /\ UNCHANGED <<shared, printed, nMatch>>

\* Lines 38-39: an invalid ticker returns at once.
AddOrderInvalid(th) ==
    /\ pc[th] = "a38"
    /\ InvalidTicker(loc[th].ticker)
    /\ Goto(th, "ret", Returned(loc[th], "None", "invalid_ticker"))
    /\ KeepSnap(th)
    /\ UNCHANGED <<shared, printed, nAdd, nMatch>>

\* Lines 41-44 and 49-50: index = book.<side>_count, then the capacity check.
AddOrderIndex(th) ==
    /\ pc[th] = "a38"
    /\ ~InvalidTicker(loc[th].ticker)
    /\ LET b == BookIndex(loc[th].ticker)
           index == IF loc[th].order_type = 0 THEN buy_count[b] ELSE sell_count[b]
       IN  IF HasRoom(index)
           THEN Goto(th, "a45", [loc[th] EXCEPT !.index = index])
           ELSE Goto(th, "ret", Returned(loc[th], "None", "full"))
    /\ KeepSnap(th)
    /\ UNCHANGED <<shared, printed, nAdd, nMatch>>

\* Lines 45 and 51: book.<side>_orders[index] = Order(...).
AddOrderStore(th) ==
    /\ pc[th] = "a45"
    /\ LET l == loc[th]
           b == BookIndex(l.ticker)
           id == Len(orders) + 1
       IN  /\ orders' = Append(orders, Order(l.order_type, l.ticker, l.quantity, l.price))
           /\ IF l.order_type = 0
              THEN /\ buy_orders' = [buy_orders EXCEPT ![b][l.index] = id]
                   /\ UNCHANGED sell_orders
              ELSE /\ sell_orders' = [sell_orders EXCEPT ![b][l.index] = id]
                   /\ UNCHANGED buy_orders
    /\ Goto(th, "a47", loc[th])
    /\ KeepSnap(th)
    /\ UNCHANGED <<buy_count, sell_count, printed, nAdd, nMatch>>

\* Lines 47 and 52, first half of "+= 1": load the count.
AddOrderLoadCount(th) ==
    /\ pc[th] = "a47"
    /\ LET b == BookIndex(loc[th].ticker)
           c == IF loc[th].order_type = 0 THEN buy_count[b] ELSE sell_count[b]
       IN  Goto(th, "a47w", [loc[th] EXCEPT !.count = c])
    /\ KeepSnap(th)
    /\ UNCHANGED <<shared, printed, nAdd, nMatch>>

\* Lines 47 and 52, second half of "+= 1": store the count plus one.
AddOrderStoreCount(th) ==
    /\ pc[th] = "a47w"
    /\ LET l == loc[th]
           b == BookIndex(l.ticker)
       IN  IF l.order_type = 0
           THEN /\ buy_count' = [buy_count EXCEPT ![b] = l.count + 1]
                /\ UNCHANGED sell_count
           ELSE /\ sell_count' = [sell_count EXCEPT ![b] = l.count + 1]
                /\ UNCHANGED buy_count
    /\ Goto(th, "ret", Returned(loc[th], "None", "inserted"))
    /\ KeepSnap(th)
    /\ UNCHANGED <<orders, buy_orders, sell_orders, printed, nAdd, nMatch>>

(***************************************************************************)
(* matchOrder                                                              *)
(***************************************************************************)

\* A thread calls matchOrder(ticker).
MatchOrderCall(th) ==
    /\ pc[th] = "idle"
    /\ nMatch < MaxMatches
    /\ \E t \in TickerArgs :
          Goto(th, "m62", [NoLocals EXCEPT
                              !.op = "matchOrder", !.ticker = t,
                              !.dead0 = {o \in 1..Len(orders) : ~orders[o].active}])
    /\ nMatch' = nMatch + 1
    /\ snap' = TakeSnap(th)
    /\ UNCHANGED <<shared, printed, nAdd>>

\* Lines 62-63: an invalid ticker returns at once.
MatchOrderInvalid(th) ==
    /\ pc[th] = "m62"
    /\ InvalidTicker(loc[th].ticker)
    /\ Goto(th, "ret", Returned(loc[th], "None", "invalid_ticker"))
    /\ KeepSnap(th)
    /\ UNCHANGED <<shared, printed, nAdd, nMatch>>

\* Lines 77-78 left out: the Buy scan runs whatever the Sell scan found.
AfterSellScanNoCheck(th, l) == Goto(th, "m81", l)

\* Lines 77-78, reached when the Sell loop is over: no active Sell returns.
AfterSellScan(th, l) ==
    IF l.lowest_sell_index = 0 - 1
    THEN Goto(th, "ret", Returned(l, "None", "no_sell"))
    ELSE Goto(th, "m81", l)

\* The Sell loop without its advance: the same slot is read again.
NextSellStuck(th, l) == Goto(th, "m71", [l EXCEPT !.order = None])

\* The Sell loop goes on to i + 1, or is over.
NextSell(th, l) ==
    IF l.i + 1 < l.n
    THEN Goto(th, "m71", [l EXCEPT !.i = l.i + 1, !.order = None])
    ELSE AfterSellScan(th, [l EXCEPT !.order = None])

\* Lines 68-70: range(book.sell_count) reads the count once.
MatchSellCount(th) ==
    /\ pc[th] = "m62"
    /\ ~InvalidTicker(loc[th].ticker)
    /\ LET n == sell_count[BookIndex(loc[th].ticker)]
           l == [loc[th] EXCEPT !.lowest_sell_price = INF,
                                !.lowest_sell_index = 0 - 1, !.n = n, !.i = 0]
       IN  IF 0 < n THEN Goto(th, "m71", l) ELSE AfterSellScan(th, l)
    /\ KeepSnap(th)
    /\ UNCHANGED <<shared, printed, nAdd, nMatch>>

\* Line 71: order = book.sell_orders[i]; an index past the list raises
\* IndexError; line 72, first half: an empty slot is skipped.
MatchSellLoad(th) ==
    /\ pc[th] = "m71"
    /\ LET l == loc[th]
           b == BookIndex(l.ticker)
       IN  IF l.i >= MAX_ORDERS_PER_SIDE
           THEN Goto(th, "ret", Returned(l, "IndexError", "index_error"))
           ELSE IF sell_orders[b][l.i] = None
                THEN NextSell(th, l)
                ELSE Goto(th, "m72", [l EXCEPT !.order = sell_orders[b][l.i]])
    /\ KeepSnap(th)
    /\ UNCHANGED <<shared, printed, nAdd, nMatch>>

\* Lines 72-75: an active Sell with a strictly lower price becomes the lowest.
MatchSellActive(th) ==
    /\ pc[th] = "m72"
    /\ LET l == loc[th]
       IN  IF IsActive(l.order) /\ LowerPrice(orders[l.order].price, l.lowest_sell_price)
           THEN NextSell(th, [l EXCEPT !.lowest_sell_price = orders[l.order].price,
                                       !.lowest_sell_index = l.i])
           ELSE NextSell(th, l)
    /\ KeepSnap(th)
    /\ UNCHANGED <<shared, printed, nAdd, nMatch>>

\* The Buy loop goes on to j + 1, or is over and the call returns.
NextBuy(th, l) ==
    IF l.j + 1 < l.n
    THEN Goto(th, "m82", [l EXCEPT !.j = l.j + 1, !.order = None, !.sell_order = None])
    ELSE Goto(th, "ret", Returned(l, "None", "no_match"))

\* Line 81: range(book.buy_count) reads the count once.
MatchBuyCount(th) ==
    /\ pc[th] = "m81"
    /\ LET n == buy_count[BookIndex(loc[th].ticker)]
           l == [loc[th] EXCEPT !.n = n, !.i = 0, !.j = 0]
       IN  IF 0 < n
           THEN Goto(th, "m82", l)
           ELSE Goto(th, "ret", Returned(l, "None", "no_match"))
    /\ KeepSnap(th)
    /\ UNCHANGED <<shared, printed, nAdd, nMatch>>

\* Line 82: order = book.buy_orders[j]; line 83, first half.
MatchBuyLoad(th) ==
    /\ pc[th] = "m82"
    /\ LET l == loc[th]
           b == BookIndex(l.ticker)
       IN  IF l.j >= MAX_ORDERS_PER_SIDE
           THEN Goto(th, "ret", Returned(l, "IndexError", "index_error"))
           ELSE IF buy_orders[b][l.j] = None
                THEN NextBuy(th, l)
                ELSE Goto(th, "m83", [l EXCEPT !.order = buy_orders[b][l.j]])
    /\ KeepSnap(th)
    /\ UNCHANGED <<shared, printed, nAdd, nMatch>>

\* Lines 83-84: an active Buy whose price reaches the lowest Sell price.
MatchBuyActive(th) ==
    /\ pc[th] = "m83"
    /\ LET l == loc[th]
       IN  IF IsActive(l.order) /\ Reaches(orders[l.order].price, l.lowest_sell_price)
           THEN Goto(th, "m86", l)
           ELSE NextBuy(th, l)
    /\ KeepSnap(th)
    /\ UNCHANGED <<shared, printed, nAdd, nMatch>>

\* Line 86: the second read of order.active.
MatchBuyRecheck(th) ==
    /\ pc[th] = "m86"
    /\ IF IsActive(loc[th].order)
       THEN Goto(th, "m87", loc[th])
       ELSE NextBuy(th, loc[th])
    /\ KeepSnap(th)
    /\ UNCHANGED <<shared, printed, nAdd, nMatch>>

\* Line 87: order.active = False.
MatchBuyClaim(th) ==
    /\ pc[th] = "m87"
    /\ LET l == loc[th]
       IN  /\ orders' = [orders EXCEPT ![l.order].active = FALSE]
           /\ Goto(th, "m89", [l EXCEPT !.flipped =
                  IF orders[l.order].active THEN l.flipped \cup {l.order} ELSE l.flipped])
    /\ KeepSnap(th)
    /\ UNCHANGED <<buy_orders, sell_orders, buy_count, sell_count, printed, nAdd, nMatch>>

\* Line 89: sell_order = book.sell_orders[lowest_sell_index]; line 90, first half.
MatchSellReload(th) ==
    /\ pc[th] = "m89"
    /\ LET l == loc[th]
           s == sell_orders[BookIndex(l.ticker)][l.lowest_sell_index]
       IN  IF s = None
           THEN NextBuy(th, l)
           ELSE Goto(th, "m90", [l EXCEPT !.sell_order = s])
    /\ KeepSnap(th)
    /\ UNCHANGED <<shared, printed, nAdd, nMatch>>

\* Line 90: the read of sell_order.active.
MatchSellRecheck(th) ==
    /\ pc[th] = "m90"
    /\ IF IsActive(loc[th].sell_order)
       THEN Goto(th, "m91", loc[th])
       ELSE NextBuy(th, loc[th])
    /\ KeepSnap(th)
    /\ UNCHANGED <<shared, printed, nAdd, nMatch>>

\* The line printed at line 92, with the identities of the two Orders.
MatchRecord(l) ==
    [ticker |-> l.ticker, buyPrice |-> orders[l.order].price,
     sellPrice |-> l.lowest_sell_price, quantity |-> orders[l.order].quantity,
     buy |-> l.order, sell |-> l.sell_order]

\* Lines 91-93: sell_order.active = False, print the match, break.
MatchSettle(th) ==
    /\ pc[th] = "m91"
    /\ LET l == loc[th]
       IN  /\ orders' = [orders EXCEPT ![l.sell_order].active = FALSE]
           /\ printed' = Append(printed, MatchRecord(l))
           /\ Goto(th, "ret", Returned(l, "None", "matched"))
    /\ KeepSnap(th)
    /\ UNCHANGED <<buy_orders, sell_orders, buy_count, sell_count, nAdd, nMatch>>

\* The caller takes the value of a call that has returned.
Return(th) ==
    /\ pc[th] = "ret"
    /\ Goto(th, "idle", NoLocals)
    /\ snap' = NoSnap
    /\ UNCHANGED <<shared, printed, nAdd, nMatch>>

Run(th) ==
    \/ AddOrderCall(th)
    \/ AddOrderInvalid(th)
    \/ AddOrderIndex(th)
    \/ AddOrderStore(th)
    \/ AddOrderLoadCount(th)
    \/ AddOrderStoreCount(th)
    \/ MatchOrderCall(th)
    \/ MatchOrderInvalid(th)
    \/ MatchSellCount(th)
    \/ MatchSellLoad(th)
    \/ MatchSellActive(th)
    \/ MatchBuyCount(th)
    \/ MatchBuyLoad(th)
    \/ MatchBuyActive(th)
    \/ MatchBuyRecheck(th)
    \/ MatchBuyClaim(th)
    \/ MatchSellReload(th)
    \/ MatchSellRecheck(th)
    \/ MatchSettle(th)
    \/ Return(th)

Next == \E th \in Threads : Run(th)

Spec == Init /\ [][Next]_vars

(***************************************************************************)
(* Properties                                                              *)
(***************************************************************************)

OrderIds == 1..Len(orders)
InMatchOrder(th) == loc[th].op = "matchOrder" /\ pc[th] # "ret"
InAddOrder(th) == loc[th].op = "addOrder" /\ pc[th] # "ret"
\* The Orders a printed match refers to.
MatchedOrders == {printed[k].buy : k \in DOMAIN printed} \cup
                 {printed[k].sell : k \in DOMAIN printed}
\* The Orders created for one side of one ticker.
CreatedOn(t, ot) == {o \in OrderIds : orders[o].ticker = t /\ orders[o].order_type = ot}
\* The Orders in the published slots of a side.
Published(slots, count) == {slots[k] : k \in {k \in Slots : k < count}}

\* C1: no two printed matches refer to the same Buy Order or to the same
\* Sell Order, whatever the interleaving of the matchOrder calls.
C1_NoOrderMatchedTwice ==
    \A a, b \in DOMAIN printed :
        a # b => /\ printed[a].buy # printed[b].buy
                 /\ printed[a].sell # printed[b].sell

\* C2: once no matchOrder call is in flight, every Order whose active flag is
\* false is referred to by a printed match (no Order is stranded).
C2_NoStranding ==
    (\A th \in Threads : ~InMatchOrder(th)) =>
        \A o \in OrderIds : ~orders[o].active => o \in MatchedOrders

\* C3: when at most MAX_ORDERS_PER_SIDE addOrder calls were made on the empty
\* book and all have returned, each side's count is the number of Orders
\* created for it and its slots below the count hold exactly those Orders.
C3_NoLostInsert ==
    (nAdd <= MAX_ORDERS_PER_SIDE /\ \A th \in Threads : ~InAddOrder(th)) =>
        \A t \in Books :
            /\ buy_count[t] = Cardinality(CreatedOn(t, 0))
            /\ Published(buy_orders[t], buy_count[t]) = CreatedOn(t, 0)
            /\ sell_count[t] = Cardinality(CreatedOn(t, 1))
            /\ Published(sell_orders[t], sell_count[t]) = CreatedOn(t, 1)

\* C4: every printed match has buyPrice >= sellPrice, the two prices being
\* those of the Buy Order and of the Sell Order the match deactivated.
C4_PriceSafety ==
    \A k \in DOMAIN printed :
        /\ printed[k].buyPrice >= printed[k].sellPrice
        /\ printed[k].buyPrice = orders[printed[k].buy].price
        /\ printed[k].sellPrice = orders[printed[k].sell].price

\* The slots of ticker t that hold an active Sell Order in the shared state s.
ActiveSellSlots(s, t) ==
    {k \in Slots : /\ k < s.sell_count[t]
                   /\ s.sell_orders[t][k] # None
                   /\ s.orders[s.sell_orders[t][k]].active}
SellPriceAt(s, t, k) == s.orders[s.sell_orders[t][k]].price

\* C5: a matchOrder call that ran alone and printed a match deactivated the
\* Sell Order that had the lowest price among the ticker's active Sell Orders
\* when the call started, the lowest slot among equal prices; it printed that
\* price, and every other Sell Order kept its flag.
C5_Minimality ==
    [][\A th \in Threads :
          (pc[th] = "m91" /\ pc'[th] = "ret" /\ snap.th = th) =>
             LET l == loc[th]
                 t == l.ticker
                 k == l.lowest_sell_index
             IN  /\ k \in ActiveSellSlots(snap, t)
                 /\ snap.sell_orders[t][k] = l.sell_order
                 /\ \A k2 \in ActiveSellSlots(snap, t) :
                       \/ SellPriceAt(snap, t, k2) > SellPriceAt(snap, t, k)
                       \/ SellPriceAt(snap, t, k2) = SellPriceAt(snap, t, k) /\ k2 >= k
                 /\ Len(printed') = Len(printed) + 1
                 /\ printed'[Len(printed')].sell = l.sell_order
                 /\ printed'[Len(printed')].sellPrice = SellPriceAt(snap, t, k)
                 /\ ~orders'[l.sell_order].active
                 /\ \A o \in 1..Len(snap.orders) :
                       (orders'[o].order_type = 1 /\ o # l.sell_order) =>
                           orders'[o].active = snap.orders[o].active
      ]_vars

\* C5, the scenario: Sells at the higher and then the lower price, a Buy that
\* reaches both; the call that ran alone took the lower Sell and left the other.
C5_Witness ==
    \E th \in Threads, t \in Books :
        /\ pc[th] = "ret" /\ loc[th].path = "matched" /\ snap.th = th
        /\ ActiveSellSlots(snap, t) = {0, 1}
        /\ SellPriceAt(snap, t, 0) > SellPriceAt(snap, t, 1)
        /\ orders[sell_orders[t][0]].active
        /\ ~orders[sell_orders[t][1]].active

\* C6: an Order whose flag was already false when a matchOrder call started is
\* never selected by that call: not as the lowest Sell of its scan (lines
\* 72-75), not as the Buy it settles (lines 83-87), and neither the Buy nor
\* the Sell of the match it prints is such an Order.
C6_SingleUse ==
    [][\A th \in Threads :
          /\ (pc[th] = "m72" /\ loc'[th].lowest_sell_index # loc[th].lowest_sell_index
                 /\ loc'[th].op = "matchOrder")
                => loc[th].order \notin loc[th].dead0
          /\ (pc[th] = "m83" /\ pc'[th] = "m86") => loc[th].order \notin loc[th].dead0
          /\ (pc[th] = "m86" /\ pc'[th] = "m87") => loc[th].order \notin loc[th].dead0
          /\ (pc'[th] # pc[th] /\ printed' # printed) =>
                /\ printed'[Len(printed')].buy \notin loc[th].dead0
                /\ printed'[Len(printed')].sell \notin loc[th].dead0
      ]_vars

\* C6: a call that started after an Order was matched is looking at that Order
\* in its Buy scan.
C6_Witness ==
    \E th \in Threads :
        /\ pc[th] = "m83"
        /\ loc[th].order \in loc[th].dead0
        /\ loc[th].order \in MatchedOrders

\* The side of ticker t an addOrder call with order_type ot works on.
SideCount(t, ot) == IF ot = 0 THEN buy_count[t] ELSE sell_count[t]
\* A ticker id outside [0, MAX_TICKERS).
OutOfRange(ticker) == ticker \notin 0..(MAX_TICKERS - 1)

C9_AddOrderInserts ==
    [][\A th \in Threads :
          (pc[th] = "a47w" /\ pc'[th] = "ret" /\ snap.th = th) =>
             LET l == loc[th]
                 t == l.ticker
                 old == IF l.order_type = 0 THEN snap.buy_count[t] ELSE snap.sell_count[t]
                 new == IF l.order_type = 0 THEN buy_count'[t] ELSE sell_count'[t]
                 slot == IF l.order_type = 0 THEN buy_orders'[t][old] ELSE sell_orders'[t][old]
             IN  /\ new = old + 1
                 /\ slot # None
                 /\ slot \notin 1..Len(snap.orders)
                 /\ orders'[slot].active
                 /\ orders'[slot].quantity = l.quantity
                 /\ orders'[slot].price = l.price
                 /\ loc'[th].path = "inserted"
      ]_vars

\* C9: an addOrder call that ran alone has inserted an Order.
C9_Witness ==
    \E th \in Threads :
        /\ pc[th] = "ret" /\ loc[th].path = "inserted" /\ snap.th = th
        /\ Len(orders) = Len(snap.orders) + 1

\* C10: a step of matchOrder that prints prints one match and ends the call,
\* and the call itself turned both flags from true to false: the Buy's at line
\* 87 earlier in the call, the Sell's in this step.
C10_EmitsOnlyOwnTransitions ==
    [][\A th \in Threads :
          (pc'[th] # pc[th] /\ printed' # printed) =>
             /\ Len(printed') = Len(printed) + 1
             /\ pc'[th] = "ret"
             /\ loc[th].order \in loc[th].flipped
             /\ orders[loc[th].sell_order].active
      ]_vars

\* The steps of thread th inside a matchOrder call on an in-range ticker
\* during which no other thread has taken a step.
MatchStepAlone(th) ==
    /\ loc[th].op = "matchOrder" /\ pc[th] # "ret" /\ pc'[th] # pc[th]
    /\ snap.th = th
    /\ ~OutOfRange(loc[th].ticker)

\* C11: a matchOrder call that ran alone on a ticker with no active Sell Order
\* (an empty ticker included) never reaches the Buy scan, prints nothing,
\* changes no count, slot or Order, and returns by line 78.
C11_NoSellNoOp ==
    [][\A th \in Threads :
          (MatchStepAlone(th) /\ ActiveSellSlots(snap, loc[th].ticker) = {}) =>
             /\ UNCHANGED <<shared, printed>>
             /\ pc'[th] \in {"m71", "m72", "ret"}
             /\ pc'[th] = "ret" => loc'[th].path \in {"no_sell", "index_error"}
      ]_vars

\* C11: a call that ran alone has returned by line 78 from a ticker whose only
\* Sell Order is inactive while a Buy Order of that ticker is still active.
C11_Witness ==
    \E th \in Threads, t \in Books :
        /\ pc[th] = "ret" /\ loc[th].path = "no_sell" /\ snap.th = th
        /\ \A o \in OrderIds : orders[o].ticker = t
        /\ \E o \in OrderIds : orders[o].order_type = 1
        /\ \A o \in OrderIds : orders[o].order_type = 1 => ~orders[o].active
        /\ \E o \in OrderIds : orders[o].order_type = 0 /\ orders[o].active

\* C12: every count is between 0 and MAX_ORDERS_PER_SIDE in every state.
C12_CountBound ==
    \A t \in Books :
        /\ buy_count[t] \in 0..MAX_ORDERS_PER_SIDE
        /\ sell_count[t] \in 0..MAX_ORDERS_PER_SIDE

\* C13: every slot below its side's count holds an Order, in every state.
C13_StoreBeforePublish ==
    \A t \in Books : \A k \in Slots :
        /\ k < buy_count[t] => buy_orders[t][k] # None
        /\ k < sell_count[t] => sell_orders[t][k] # None

\* C14: no step lowers a count.
C14_CountNeverDecreases ==
    [][\A t \in Books : /\ buy_count'[t] >= buy_count[t]
                        /\ sell_count'[t] >= sell_count[t]]_vars

\* C15: an Order is created with active = true; a step changes the flag of an
\* existing Order only from true to false and only as a step of a thread that
\* is inside matchOrder; no Order is deleted or replaced in the heap.
C15_OrderLifecycle ==
    [][/\ Len(orders') >= Len(orders)
       /\ \A o \in 1..Len(orders') :
             IF o \in 1..Len(orders)
             THEN /\ orders'[o].active # orders[o].active =>
                        /\ orders[o].active /\ ~orders'[o].active
                        /\ \E th \in Threads : /\ loc[th].op = "matchOrder"
                                               /\ pc[th] \in {"m87", "m91"}
                                               /\ pc'[th] # pc[th]
                  /\ ~orders[o].active => ~orders'[o].active
             ELSE orders'[o].active
      ]_vars

\* C15: an Order that was matched is inactive while a thread is inside
\* addOrder and another is inside matchOrder.
C15_Witness ==
    /\ \E o \in OrderIds : ~orders[o].active /\ o \in MatchedOrders
    /\ \E th \in Threads : InAddOrder(th) /\ pc[th] = "a47"
    /\ \E th \in Threads : InMatchOrder(th) /\ pc[th] = "m87"

\* The lowest price among the active Sell Orders of ticker t in the state s.
LowestSellPrice(s, t) ==
    CHOOSE p \in Prices :
        /\ \E k \in ActiveSellSlots(s, t) : SellPriceAt(s, t, k) = p
        /\ \A k \in ActiveSellSlots(s, t) : SellPriceAt(s, t, k) >= p
\* The slots of ticker t that hold an active Buy Order at a price >= p.
EligibleBuySlots(s, t, p) ==
    {k \in Slots : /\ k < s.buy_count[t]
                   /\ s.buy_orders[t][k] # None
                   /\ s.orders[s.buy_orders[t][k]].active
                   /\ s.orders[s.buy_orders[t][k]].price >= p}
\* Ticker t has an active Buy and an active Sell with buy price >= sell price.
HasMatch(s, t) ==
    /\ ActiveSellSlots(s, t) # {}
    /\ EligibleBuySlots(s, t, LowestSellPrice(s, t)) # {}

\* C16: a matchOrder call that ran alone and printed a match settled the Buy
\* Order in the lowest slot among the ticker's active Buy Orders whose price
\* reaches the lowest active Sell price; a call that ran alone on a ticker
\* with no such Buy changes no count, slot or Order and prints nothing.
C16_FirstEligibleBuy ==
    [][\A th \in Threads :
          /\ (MatchStepAlone(th) /\ pc[th] = "m91") =>
                LET l == loc[th]
                    t == l.ticker
                    e == EligibleBuySlots(snap, t, LowestSellPrice(snap, t))
                IN  /\ l.j \in e
                    /\ \A k \in e : k >= l.j
                    /\ snap.buy_orders[t][l.j] = l.order
                    /\ printed'[Len(printed')].buy = l.order
                    /\ ~orders'[l.order].active
                    /\ \A o \in 1..Len(snap.orders) :
                          (orders'[o].order_type = 0 /\ o # l.order) =>
                              orders'[o].active = snap.orders[o].active
          /\ (MatchStepAlone(th) /\ ~HasMatch(snap, loc[th].ticker)) =>
                UNCHANGED <<shared, printed>>
      ]_vars

\* C16: Buys at the lower and then the higher price, both reaching the Sell;
\* the call that ran alone settled the first and left the higher Buy active.
C16_Witness ==
    \E th \in Threads, t \in Books :
        /\ pc[th] = "ret" /\ loc[th].path = "matched" /\ snap.th = th
        /\ HasMatch(snap, t)
        /\ EligibleBuySlots(snap, t, LowestSellPrice(snap, t)) = {0, 1}
        /\ snap.orders[snap.buy_orders[t][0]].price < snap.orders[snap.buy_orders[t][1]].price
        /\ ~orders[buy_orders[t][0]].active
        /\ orders[buy_orders[t][1]].active

(***************************************************************************)
(* Progress.  A thread that is inside a call is runnable and the scheduler *)
(* runs every runnable thread again and again: weak fairness of the steps  *)
(* of each thread that is not idle.  Whether an idle thread makes another  *)
(* call is up to the harness.  LiveInit is the empty book after calls with *)
(* an out-of-range ticker have used part of the call budget.               *)
(***************************************************************************)
LiveInit ==
    /\ orders = << >>
    /\ buy_orders = [t \in Books |-> EmptySide]
    /\ sell_orders = [t \in Books |-> EmptySide]
    /\ buy_count = [t \in Books |-> 0]
    /\ sell_count = [t \in Books |-> 0]
    /\ pc = [th \in Threads |-> "idle"]
    /\ loc = [th \in Threads |-> NoLocals]
    /\ printed = << >>
    /\ nAdd = MaxAdds - 2
    /\ nMatch = 0
    /\ snap = NoSnap

Progress(th) == pc[th] # "idle" /\ Run(th)

LiveSpec == LiveInit /\ [][Next]_vars /\ \A th \in Threads : WF_vars(Progress(th))

\* C17: under weak fairness of the calling thread, every addOrder and
\* matchOrder call that has started returns, whatever the other threads do.
C17_CallsFinish ==
    \A th \in Threads : (pc[th] \notin {"idle", "ret"}) ~> (pc[th] = "ret")

\* C17: a matchOrder call has returned while another thread is inside a call.
C17_Witness ==
    \E th, other \in Threads :
        /\ th # other
        /\ pc[th] = "ret" /\ loc[th].op = "matchOrder" /\ loc[th].path = "matched"
        /\ pc[other] \notin {"idle", "ret"}

\* C18: a matchOrder call turns the flag of at most one Buy Order from true to
\* false (and, as line 91 is followed by break, of at most one Sell Order).
C18_OneBuyPerCall ==
    \A th \in Threads :
        Cardinality({o \in loc[th].flipped : orders[o].order_type = 0}) <= 1

(***************************************************************************)
(* Over-full side                                                          *)
(***************************************************************************)

\* The book after the addOrder race on the last free Sell slot of ticker 0
\* (lines 43-47 of two calls interleaved): three Sell Orders were created, the
\* second and third were stored in the same slot, and both calls advanced the
\* count, which is now MAX_ORDERS_PER_SIDE + 1.  Calls are still to come.
OverfullInit ==
    /\ \E p1, p2, p3 \in Prices :
          orders = << Order(1, 0, 1, p1), Order(1, 0, 1, p2), Order(1, 0, 1, p3) >>
    /\ buy_orders = [t \in Books |-> EmptySide]
    /\ \E last \in {2, 3} :
          sell_orders = [t \in Books |->
                            IF t = 0 THEN [k \in Slots |-> IF k = 0 THEN 1 ELSE last]
                                     ELSE EmptySide]
    /\ buy_count = [t \in Books |-> 0]
    /\ sell_count = [t \in Books |-> IF t = 0 THEN MAX_ORDERS_PER_SIDE + 1 ELSE 0]
    /\ pc = [th \in Threads |-> "idle"]
    /\ loc = [th \in Threads |-> NoLocals]
    /\ printed = << >>
    /\ nAdd = MaxAdds - 2
    /\ nMatch = 0
    /\ snap = NoSnap

OverfullSpec == OverfullInit /\ [][Next]_vars

\* The book of OverfullInit is one the program gets into from the empty book.
OverfullReached ==
    /\ Len(orders) = 3
    /\ \A o \in OrderIds : orders[o] = Order(1, 0, 1, orders[o].price)
    /\ buy_orders = [t \in Books |-> EmptySide]
    /\ sell_orders[0][0] = 1 /\ sell_orders[0][1] \in {2, 3}
    /\ sell_orders[1] = EmptySide
    /\ buy_count = [t \in Books |-> 0]
    /\ sell_count = [t \in Books |-> IF t = 0 THEN MAX_ORDERS_PER_SIDE + 1 ELSE 0]
    /\ \A th \in Threads : pc[th] = "idle"
    /\ printed = << >>

\* C19: a matchOrder(t) call that ran alone prints a match if and only if,
\* when it started, ticker t had an active Buy and an active Sell with buy
\* price >= sell price; when it prints one, exactly one Buy and one Sell Order
\* of ticker t went from active to inactive.
C19_MatchCompleteness ==
    [][\A th \in Threads :
          (MatchStepAlone(th) /\ pc'[th] = "ret") =>
             LET t == loc[th].ticker
                 emitted == Len(printed') > Len(snap.printed)
                 gone(ot) == {o \in DOMAIN snap.orders :
                                 /\ snap.orders[o].ticker = t
                                 /\ snap.orders[o].order_type = ot
                                 /\ snap.orders[o].active
                                 /\ ~orders'[o].active}
             IN  /\ emitted <=> HasMatch(snap, t)
                 /\ emitted => /\ Cardinality(gone(0)) = 1
                               /\ Cardinality(gone(1)) = 1
      ]_vars

\* The thread th takes this step.
Steps(th) == pc'[th] # pc[th] \/ loc'[th] # loc[th]
\* The slots of a side of ticker t whose content this step changes.
ChangedSlots(t, ot) ==
    IF ot = 0 THEN {k \in Slots : buy_orders'[t][k] # buy_orders[t][k]}
              ELSE {k \in Slots : sell_orders'[t][k] # sell_orders[t][k]}

\* C20: frame.  A step of addOrder(side, t, ...) changes no existing Order, no
\* count or slot of the other side or of another ticker, and at most one slot
\* of its side, at line 45/51 only; a step of matchOrder(t) changes no count,
\* no slot, creates no Order and changes no field of an Order except the
\* active flag of Orders of ticker t; entering and leaving a call, and a call
\* with a ticker out of range, change nothing.
C20_Frame ==
    [][\A th \in Threads : Steps(th) =>
          LET l == loc[th]
              t == l.ticker
          IN  /\ (pc[th] \in {"idle", "ret"} \/ OutOfRange(t)) => UNCHANGED shared
              /\ (InAddOrder(th) /\ ~OutOfRange(t)) =>
                    /\ \A o \in OrderIds : o \in DOMAIN orders' /\ orders'[o] = orders[o]
                    /\ \A t2 \in Books \ {t} :
                          /\ buy_orders'[t2] = buy_orders[t2]
                          /\ sell_orders'[t2] = sell_orders[t2]
                          /\ buy_count'[t2] = buy_count[t2]
                          /\ sell_count'[t2] = sell_count[t2]
                    /\ l.order_type = 0 =>
                          sell_orders'[t] = sell_orders[t] /\ sell_count'[t] = sell_count[t]
                    /\ l.order_type = 1 =>
                          buy_orders'[t] = buy_orders[t] /\ buy_count'[t] = buy_count[t]
                    /\ Cardinality(ChangedSlots(t, l.order_type)) <= 1
                    /\ ChangedSlots(t, l.order_type) # {} => pc[th] = "a45"
                    /\ printed' = printed
              /\ (InMatchOrder(th) /\ ~OutOfRange(t)) =>
                    /\ UNCHANGED <<buy_orders, sell_orders, buy_count, sell_count>>
                    /\ DOMAIN orders' = DOMAIN orders
                    /\ \A o \in OrderIds :
                          /\ orders'[o] = [orders[o] EXCEPT !.active = orders'[o].active]
                          /\ orders[o].ticker # t => orders'[o] = orders[o]
      ]_vars
\* A matchOrder call has settled a match on one ticker, and an Order created
\* after the matched pair sits, still active, on the other ticker.
C20_Witness ==
    /\ \E th \in Threads :
          pc[th] = "ret" /\ loc[th].op = "matchOrder" /\ loc[th].path = "matched"
    /\ \E k \in DOMAIN printed, o \in OrderIds :
          /\ orders[o].ticker # orders[printed[k].buy].ticker
          /\ orders[o].active
          /\ o > printed[k].buy /\ o > printed[k].sell

====
